---- MODULE Spec2Model ----
(***************************************************************************)
(* Drift monitoring of the two prediction services of the repository:     *)
(*                                                                         *)
(*   - the MLflow inference service                                        *)
(*     (src/mlops-experiments/mlops-core/inference/main.py): the sliding   *)
(*     window buffer, the rows-since-validation counter, the recorded      *)
(*     validation result and the two drift gauges;                         *)
(*   - the AIOps inference service (src/app/main.py): the per-request      *)
(*     merge of the expectation verdict and the z-score verdict, and the   *)
(*     webhook notification.                                               *)
(*                                                                         *)
(* The two services are separate processes that share no state.  Spec      *)
(* runs the first one, AppSpec and AppFairSpec the second.                 *)
(***************************************************************************)
EXTENDS Integers, Sequences, FiniteSets, TLC

VARIABLES
    \* ---- inference service: configuration read from the environment
    DRIFT_ENABLED,
    GE_AVAILABLE,
    DRIFT_WINDOW,
    DRIFT_VALIDATE_EVERY,
    MIN_ROWS_TO_VALIDATE,
    expectations_file,          \* what is at EXPECTATIONS_PATH
    \* ---- inference service: module globals
    _request_buffer,
    _requests_since_validation,
    _last_validation,
    DRIFT_STATUS,
    DRIFT_FAILED_EXPECTATIONS,
    \* ---- inference service: history of the run
    now,                        \* logical clock read by datetime.now()
    appended,                   \* every row appended so far, in order
    snapshot_at,                \* Len(appended) at the last validation run
    validation_runs,            \* number of calls of _run_ge_validation
    last_request,               \* outcome of the most recent /predict
    \* ---- AIOps service: what startup finds on disk and in the environment
    model_file,                 \* is there a file at MODEL_PATH
    baseline_file,              \* the detector np.load(BASELINE_PATH) yields, or None
    app_expectations_file,      \* what is at the service's EXPECTATIONS_PATH
    app_GE_AVAILABLE,
    DRIFT_WEBHOOK,
    \* ---- AIOps service: module globals
    app_state,                  \* "starting", "serving" or "crashed"
    detector,
    ge_suite,
    \* ---- AIOps service: the request being handled
    req

inferenceVars ==
    << DRIFT_ENABLED, GE_AVAILABLE, DRIFT_WINDOW, DRIFT_VALIDATE_EVERY,
       MIN_ROWS_TO_VALIDATE, expectations_file, _request_buffer,
       _requests_since_validation, _last_validation, DRIFT_STATUS,
       DRIFT_FAILED_EXPECTATIONS, now, appended, snapshot_at,
       validation_runs, last_request >>

appConfigVars ==
    << model_file, baseline_file, app_expectations_file, app_GE_AVAILABLE,
       DRIFT_WEBHOOK >>

appVars == << appConfigVars, app_state, detector, ge_suite, req >>

vars == << inferenceVars, appVars >>

configVars ==
    << DRIFT_ENABLED, GE_AVAILABLE, DRIFT_WINDOW, DRIFT_VALIDATE_EVERY,
       MIN_ROWS_TO_VALIDATE, expectations_file >>

(***************************************************************************)
(* Bounds of the model.                                                    *)
(***************************************************************************)
MaxWindow == 2      \* DRIFT_WINDOW ranges over 0..MaxWindow
MaxEvery == 2       \* DRIFT_VALIDATE_EVERY ranges over 0..MaxEvery
MaxMinRows == 2     \* DRIFT_MIN_ROWS ranges over 0..MaxMinRows
MaxBatch == 2       \* rows of one request
MaxTotal == 4       \* rows appended in one behaviour
MaxAppBatch == 2    \* rows of one request to the AIOps service

\* Python's None, and the three values of an optional bool.
None == "None"
True == "True"
False == "False"
PyBool(b) == IF b THEN True ELSE False

\* An optional value that is a record or a list: None is the empty tuple,
\* a value v is the one-element tuple of v.
Nothing == <<>>
Some(v) == <<v>>
Get(o) == o[1]

\* checked_at before any validation run (None in the source); the clock
\* stamps the runs 1, 2, ...
NotChecked == <<>>
CheckedAt(t) == <<t>>

\* Values of the single feature column of a row.  9 lies outside [0, 8],
\* the range of the column rule written by src/model/train.py.
RowVals == {1, 9}

FeatureRow == { <<v>> : v \in RowVals }

RECURSIVE SeqsUpTo(_, _)
SeqsUpTo(S, n) ==
    IF n = 0 THEN { <<>> }
    ELSE LET shorter == SeqsUpTo(S, n - 1)
         IN  shorter \cup { Append(s, x) : s \in { t \in shorter : Len(t) = n - 1 }, x \in S }

\* The request bodies: PredictRequest.instances.
Payloads == SeqsUpTo(FeatureRow, MaxBatch)

Max(a, b) == IF a >= b THEN a ELSE b

(***************************************************************************)
(* Expectation suites.  A rule is an entry of the "expectations" list of   *)
(* the file at EXPECTATIONS_PATH.                                          *)
(***************************************************************************)
RowCountRule ==
    [expectation_type |-> "expect_table_row_count_to_be_between",
     kwargs |-> [min_value |-> 1]]

ColumnRule ==
    [expectation_type |-> "expect_column_values_to_be_between",
     kwargs |-> [column |-> 0, min_value |-> 0, max_value |-> 8]]

MissingColumnRule ==
    [expectation_type |-> "expect_column_values_to_be_between",
     kwargs |-> [column |-> 1, min_value |-> 0, max_value |-> 8]]

UnknownRule ==
    [expectation_type |-> "expect_no_such_check", kwargs |-> [min_value |-> 1]]

Suites ==
    { <<>>, <<RowCountRule>>, <<ColumnRule>>, <<RowCountRule, ColumnRule>>,
      <<UnknownRule, ColumnRule>>, <<ColumnRule, MissingColumnRule>> }

\* What os.path.exists / json.load find at EXPECTATIONS_PATH.
ExpectationFiles ==
    { [state |-> "missing"], [state |-> "unparsable"] }
        \cup { [state |-> "suite", expectations |-> s] : s \in Suites }

\* The expectation methods PandasDataset has.
KnownExpectations ==
    { "expect_table_row_count_to_be_between",
      "expect_column_values_to_be_between" }

\* Column labels of pd.DataFrame(rows): 0 .. width - 1.
Columns(rows) == IF rows = <<>> THEN {} ELSE 0..(Len(rows[1]) - 1)

\* getattr(ds, e_type)(**kwargs) raises: no such method, or no such column.
RuleRaises(e, rows) ==
    \/ e.expectation_type \notin KnownExpectations
    \/ /\ e.expectation_type = "expect_column_values_to_be_between"
       /\ e.kwargs.column \notin Columns(rows)

\* The outcome of one known, well-formed rule on the rows.
RuleSuccess(e, rows) ==
    IF e.expectation_type = "expect_table_row_count_to_be_between"
    THEN Len(rows) >= e.kwargs.min_value
    ELSE \A i \in 1..Len(rows) :
            /\ rows[i][e.kwargs.column + 1] >= e.kwargs.min_value
            /\ rows[i][e.kwargs.column + 1] <= e.kwargs.max_value

\* for e in suite: getattr(ds, e_type)(**kwargs) -- does any call raise?
SuiteRaises(suite, rows) == \E i \in 1..Len(suite) : RuleRaises(suite[i], rows)

\* The "failed" list built from ds.validate(): type and kwargs of each
\* failed expectation, in suite order.
FailedRules(suite, rows) ==
    SelectSeq([i \in 1..Len(suite) |->
                  [type |-> suite[i].expectation_type, kwargs |-> suite[i].kwargs,
                   ok |-> RuleSuccess(suite[i], rows)]],
              LAMBDA r : ~r.ok)

FailedList(suite, rows) ==
    LET f == FailedRules(suite, rows)
    IN  [i \in 1..Len(f) |-> [type |-> f[i].type, kwargs |-> f[i].kwargs]]

\* result.get("success"): every expectation of the suite succeeded.
SuiteSuccess(suite, rows) == \A i \in 1..Len(suite) : RuleSuccess(suite[i], rows)

(***************************************************************************)
(* collections.deque(maxlen = DRIFT_WINDOW)                                *)
(***************************************************************************)
\* A deque that refuses the new row when full instead of evicting the oldest.
DequeAppendDropNewest(buf, row, maxlen) ==
    IF Len(buf) >= maxlen THEN buf ELSE Append(buf, row)

\* deque.append: append on the right, then drop the leftmost while over maxlen.
DequeAppend(buf, row, maxlen) ==
    LET b == Append(buf, row)
    IN  IF Len(b) > maxlen THEN Tail(b) ELSE b

\* for row in payload.instances: _request_buffer.append(row)
RECURSIVE AppendRows(_, _, _)
AppendRows(buf, rows, maxlen) ==
    IF rows = <<>> THEN buf
    ELSE AppendRows(DequeAppend(buf, Head(rows), maxlen), Tail(rows), maxlen)

\* A counter that counts requests instead of rows.
CountRequests(count, rows) == count + 1

\* The counter after the rows of a request are appended.
CountRows(count, rows) == count + Len(rows)

\* A buffer test that asks for more rows than the minimum.
ShouldValidateStrict(buf, count) ==
    /\ Len(buf) > Max(MIN_ROWS_TO_VALIDATE, 1)
    /\ count >= DRIFT_VALIDATE_EVERY

\* A threshold test that forgets the minimum buffer length.
ShouldValidateCountOnly(buf, count) == count >= DRIFT_VALIDATE_EVERY

\* The threshold test of predict.
ShouldValidate(buf, count) ==
    /\ Len(buf) >= Max(MIN_ROWS_TO_VALIDATE, 1)
    /\ count >= DRIFT_VALIDATE_EVERY

\* A validation run that leaves the counter as it is.
KeepCount(count) == count

\* The counter after a validation run.
ResetCount(count) == 0

(***************************************************************************)
(* _set_drift_metrics_from_result and _run_ge_validation                   *)
(***************************************************************************)
\* The value DRIFT_STATUS is set to.
StatusGauge(success) ==
    IF success = None THEN -1 ELSE IF success = False THEN 1 ELSE 0

\* The record written when EXPECTATIONS_PATH does not exist.
FileNotFoundResult(t) ==
    [enabled |-> TRUE, success |-> None, failed |-> <<>>, checked_at |-> t,
     error |-> "expectations file not found"]

\* An except branch that patches the previous record instead of replacing it.
ExceptionResultMerged(t, e) ==
    [_last_validation EXCEPT !.success = False, !.error = e]

\* The record written by the except branch.
ExceptionResult(t, e) ==
    [enabled |-> TRUE, success |-> False, failed |-> <<>>, checked_at |-> t,
     error |-> e]

\* The record written after ds.validate().
ValidatedResult(t, suite, rows) ==
    [enabled |-> TRUE, success |-> PyBool(SuiteSuccess(suite, rows)),
     failed |-> FailedList(suite, rows), checked_at |-> t, error |-> None]

\* The record written when drift checking is switched off.
DisabledResult(t) ==
    [enabled |-> FALSE, success |-> None, failed |-> <<>>, checked_at |-> t,
     error |-> None]

\* _run_ge_validation(df) at time t: the new _last_validation and the
\* arguments of _set_drift_metrics_from_result.
RunGeValidation(rows, t) ==
    IF ~(DRIFT_ENABLED /\ GE_AVAILABLE)
    THEN [result |-> DisabledResult(t), gauge |-> None, count |-> 0]
    ELSE IF expectations_file.state = "missing"
    THEN [result |-> FileNotFoundResult(t), gauge |-> False, count |-> 0]
    ELSE IF expectations_file.state = "unparsable"
    THEN [result |-> ExceptionResult(t, "JSONDecodeError"), gauge |-> False, count |-> 0]
    ELSE IF SuiteRaises(expectations_file.expectations, rows)
    THEN [result |-> ExceptionResult(t, "expectation raised"), gauge |-> False, count |-> 0]
    ELSE LET r == ValidatedResult(t, expectations_file.expectations, rows)
         IN  [result |-> r, gauge |-> r.success, count |-> Len(r.failed)]

(***************************************************************************)
(* The inference service                                                   *)
(***************************************************************************)
InferenceInit ==
    /\ DRIFT_ENABLED \in BOOLEAN
    /\ GE_AVAILABLE \in BOOLEAN
    /\ DRIFT_WINDOW \in 0..MaxWindow
    /\ DRIFT_VALIDATE_EVERY \in 0..MaxEvery
    /\ MIN_ROWS_TO_VALIDATE \in 0..MaxMinRows
    /\ expectations_file \in ExpectationFiles
    /\ _request_buffer = <<>>
    /\ _requests_since_validation = 0
    /\ _last_validation =
          [enabled |-> DRIFT_ENABLED /\ GE_AVAILABLE, success |-> None,
           failed |-> <<>>, checked_at |-> NotChecked, error |-> None]
    /\ DRIFT_STATUS = 0
    /\ DRIFT_FAILED_EXPECTATIONS = 0
    /\ now = 0
    /\ appended = <<>>
    /\ snapshot_at = 0
    /\ validation_runs = 0
    /\ last_request = [status |-> "none", rows |-> 0, validated |-> FALSE]

\* model.predict(df) raises: the request fails before the drift block.
\* The registered model is a scikit-learn pipeline with a fixed feature
\* count: it refuses an empty batch and any batch of another width, so the
\* rows that reach the buffer all have the same width and the frame of the
\* buffer (pd.DataFrame(list(_request_buffer), columns=df.columns)) is
\* always built.
PredictFails(payload) ==
    /\ last_request' = [status |-> "error", rows |-> Len(payload), validated |-> FALSE]
    /\ UNCHANGED << configVars, _request_buffer, _requests_since_validation,
                    _last_validation, DRIFT_STATUS, DRIFT_FAILED_EXPECTATIONS,
                    now, appended, snapshot_at, validation_runs, appVars >>

\* POST /predict with the predictions served, drift block skipped.
PredictDriftOff(payload) ==
    /\ payload # <<>>
    /\ ~(DRIFT_ENABLED /\ GE_AVAILABLE)
    /\ last_request' = [status |-> "ok", rows |-> Len(payload), validated |-> FALSE]
    /\ UNCHANGED << configVars, _request_buffer, _requests_since_validation,
                    _last_validation, DRIFT_STATUS, DRIFT_FAILED_EXPECTATIONS,
                    now, appended, snapshot_at, validation_runs, appVars >>

\* A request below the threshold that publishes "not checked" again.
PredictAppendRepublishes(payload) ==
    /\ payload # <<>>
    /\ DRIFT_ENABLED /\ GE_AVAILABLE
    /\ Len(appended) + Len(payload) <= MaxTotal
    /\ LET buf == AppendRows(_request_buffer, payload, DRIFT_WINDOW)
           count == CountRows(_requests_since_validation, payload)
       IN  /\ ~ShouldValidate(buf, count)
           /\ _request_buffer' = buf
           /\ _requests_since_validation' = count
    /\ DRIFT_STATUS' = StatusGauge(None)
    /\ DRIFT_FAILED_EXPECTATIONS' = 0
    /\ appended' = appended \o payload
    /\ last_request' = [status |-> "ok", rows |-> Len(payload), validated |-> FALSE]
    /\ UNCHANGED << configVars, _last_validation, now, snapshot_at,
                    validation_runs, appVars >>

\* POST /predict with the predictions served: append, count, no validation.
PredictAppend(payload) ==
    /\ payload # <<>>
    /\ DRIFT_ENABLED /\ GE_AVAILABLE
    /\ Len(appended) + Len(payload) <= MaxTotal
    /\ LET buf == AppendRows(_request_buffer, payload, DRIFT_WINDOW)
           count == CountRows(_requests_since_validation, payload)
       IN  /\ ~ShouldValidate(buf, count)
           /\ _request_buffer' = buf
           /\ _requests_since_validation' = count
    /\ appended' = appended \o payload
    /\ last_request' = [status |-> "ok", rows |-> Len(payload), validated |-> FALSE]
    /\ UNCHANGED << configVars, _last_validation, DRIFT_STATUS,
                    DRIFT_FAILED_EXPECTATIONS, now, snapshot_at, validation_runs,
                    appVars >>

\* POST /predict with the predictions served: append, count, validate, reset.
PredictValidate(payload) ==
    /\ payload # <<>>
    /\ DRIFT_ENABLED /\ GE_AVAILABLE
    /\ Len(appended) + Len(payload) <= MaxTotal
    /\ LET buf == AppendRows(_request_buffer, payload, DRIFT_WINDOW)
           count == CountRows(_requests_since_validation, payload)
           run == RunGeValidation(buf, CheckedAt(now + 1))
       IN  /\ ShouldValidate(buf, count)
           /\ _request_buffer' = buf
           /\ _last_validation' = run.result
           /\ DRIFT_STATUS' = StatusGauge(run.gauge)
           /\ DRIFT_FAILED_EXPECTATIONS' = run.count
           /\ _requests_since_validation' = ResetCount(count)
    /\ now' = now + 1
    /\ appended' = appended \o payload
    /\ snapshot_at' = Len(appended')
    /\ validation_runs' = validation_runs + 1
    /\ last_request' = [status |-> "ok", rows |-> Len(payload), validated |-> TRUE]
    /\ UNCHANGED << configVars, appVars >>

\* predict is a coroutine without an await: the event loop runs each call
\* to completion, so one request is one step.
Predict ==
    \E payload \in Payloads :
        \/ PredictFails(payload)
        \/ PredictDriftOff(payload)
        \/ PredictAppend(payload)
        \/ PredictValidate(payload)

\* The same two steps for behaviours that never end: the history kept for
\* the other properties (appended, snapshot_at, validation_runs, now) is left
\* alone, and the counter, a Python int without bound, stops at LiveCap,
\* which is above every DRIFT_VALIDATE_EVERY so that the threshold test
\* reads the same.
LiveCap == MaxEvery + MaxMinRows + MaxBatch

Saturate(count) == IF count > LiveCap THEN LiveCap ELSE count

LivePredictAppend(payload) ==
    /\ payload # <<>>
    /\ DRIFT_ENABLED /\ GE_AVAILABLE
    /\ LET buf == AppendRows(_request_buffer, payload, DRIFT_WINDOW)
           count == CountRows(_requests_since_validation, payload)
       IN  /\ ~ShouldValidate(buf, count)
           /\ _request_buffer' = buf
           /\ _requests_since_validation' = Saturate(count)
    /\ last_request' = [status |-> "ok", rows |-> Len(payload), validated |-> FALSE]
    /\ UNCHANGED << configVars, _last_validation, DRIFT_STATUS,
                    DRIFT_FAILED_EXPECTATIONS, now, appended, snapshot_at,
                    validation_runs, appVars >>

LivePredictValidate(payload) ==
    /\ payload # <<>>
    /\ DRIFT_ENABLED /\ GE_AVAILABLE
    /\ LET buf == AppendRows(_request_buffer, payload, DRIFT_WINDOW)
           count == CountRows(_requests_since_validation, payload)
           run == RunGeValidation(buf, CheckedAt(now + 1))
       IN  /\ ShouldValidate(buf, count)
           /\ _request_buffer' = buf
           /\ _last_validation' = run.result
           /\ DRIFT_STATUS' = StatusGauge(run.gauge)
           /\ DRIFT_FAILED_EXPECTATIONS' = run.count
           /\ _requests_since_validation' = ResetCount(count)
    /\ last_request' = [status |-> "ok", rows |-> Len(payload), validated |-> TRUE]
    /\ UNCHANGED << configVars, now, appended, snapshot_at, validation_runs,
                    appVars >>

\* A request carrying at least one row is served.
LiveServed ==
    \E payload \in Payloads :
        \/ LivePredictAppend(payload)
        \/ LivePredictValidate(payload)

LivePredict ==
    \E payload \in Payloads :
        \/ PredictFails(payload)
        \/ PredictDriftOff(payload)
        \/ LivePredictAppend(payload)
        \/ LivePredictValidate(payload)

(***************************************************************************)
(* Properties of the inference service                                     *)
(***************************************************************************)
\* The last n elements of a sequence (all of it when it is shorter).
LastN(s, n) == SubSeq(s, Max(Len(s) - n, 0) + 1, Len(s))

DriftOn == DRIFT_ENABLED /\ GE_AVAILABLE

\* The step is a validation run.
ValidationRan == validation_runs' = validation_runs + 1

\* C1: the window buffer never holds more than DRIFT_WINDOW rows, and it
\* holds exactly the last DRIFT_WINDOW rows appended, in arrival order
\* (all the rows appended while fewer than DRIFT_WINDOW have arrived).
C1_WindowHoldsLastRows ==
    /\ Len(_request_buffer) <= DRIFT_WINDOW
    /\ DriftOn => _request_buffer = LastN(appended, DRIFT_WINDOW)

\* More rows than the window holds have arrived and the oldest was evicted.
C1_Witness ==
    /\ DRIFT_WINDOW = 2
    /\ Len(appended) = 4
    /\ appended[1] # appended[3]
    /\ _request_buffer = << appended[3], appended[4] >>

\* C2: a served request runs a validation if and only if, once its rows
\* are appended, the buffer holds at least max(DRIFT_MIN_ROWS, 1) rows and
\* the counter has reached DRIFT_VALIDATE_EVERY.
C2_ValidateIffThreshold ==
    [][ last_request'.status = "ok" =>
          ( ValidationRan <=>
              /\ Len(_request_buffer') >= Max(MIN_ROWS_TO_VALIDATE, 1)
              /\ _requests_since_validation + last_request'.rows
                    >= DRIFT_VALIDATE_EVERY ) ]_vars

\* A validation ran on a request that brought the counter to the threshold,
\* after an earlier request had left it below.
C2_Witness ==
    /\ last_request.validated
    /\ DRIFT_VALIDATE_EVERY = 2
    /\ last_request.rows = 1
    /\ MIN_ROWS_TO_VALIDATE = 2

\* C3: the counter equals the number of rows appended since the most
\* recent validation run: no row is lost from the count or counted twice.
C3_CounterCountsRowsSinceSnapshot ==
    _requests_since_validation = Len(appended) - snapshot_at

\* Rows were appended, a validation ran, and rows were appended again.
C3_Witness ==
    /\ snapshot_at >= 2
    /\ Len(appended) - snapshot_at >= 1
    /\ _requests_since_validation >= 1
    /\ validation_runs >= 1

\* C4: a validation run happens only when at least DRIFT_VALIDATE_EVERY
\* rows have been appended since the previous run, so the same accumulated
\* rows never trigger two runs.
C4_NoRedundantValidation ==
    [][ ValidationRan =>
          Len(appended') - snapshot_at >= DRIFT_VALIDATE_EVERY ]_vars

\* Two validation runs happened with a positive threshold.
C4_Witness ==
    /\ validation_runs >= 2
    /\ DRIFT_VALIDATE_EVERY >= 1

\* The fields of a recorded validation result.
ResultFields == {"enabled", "success", "failed", "checked_at", "error"}

\* A record that describes one run only: an error run or a successful run
\* lists no failed rule, and only a run without error has succeeded.
OneRunRecord(r) ==
    /\ DOMAIN r = ResultFields
    /\ r.error # None => r.failed = <<>> /\ r.success # True
    /\ r.success = True => r.failed = <<>>
    /\ r.success = False /\ r.error = None => r.failed # <<>>

\* C7: every validation run, an error run included, replaces the recorded
\* result by a new record stamped with the time of that run, and the
\* counter is never reset without such a new record.
C7_RunReplacesResult ==
    [][ /\ ValidationRan =>
             /\ _last_validation'.checked_at = CheckedAt(now')
             /\ _last_validation'.checked_at # _last_validation.checked_at
             /\ OneRunRecord(_last_validation')
        /\ ( /\ DriftOn
             /\ last_request'.status = "ok"
             /\ _requests_since_validation'
                   # _requests_since_validation + last_request'.rows )
             => /\ ValidationRan
                /\ _last_validation'.checked_at # _last_validation.checked_at ]_vars

\* An error run replaced the record of an earlier run.
C7_Witness ==
    /\ validation_runs >= 2
    /\ _last_validation.error # None
    /\ _last_validation.checked_at = CheckedAt(2)

\* The request just served ran a validation that ended in an error state.
ErrorRun ==
    /\ last_request.validated
    /\ \/ expectations_file.state \in {"missing", "unparsable"}
       \/ SuiteRaises(expectations_file.expectations, _request_buffer)

\* C8: after a validation run that hit an error state the recorded result
\* has success = false and an error text, which tells it from an organic
\* expectation failure (success = false, no error).
C8_ErrorRunRecordsFailure ==
    ErrorRun => /\ _last_validation.success = False
                /\ _last_validation.error # None

\* C11: the published gauges agree with the recorded result: the status
\* gauge is -1 when success is unset, 0 when it is true, 1 when it is
\* false, and the other gauge is the number of failed rules recorded.
C11_GaugesAgreeWithResult ==
    /\ DRIFT_STATUS =
          ( CASE _last_validation.success = None -> -1
              [] _last_validation.success = True -> 0
              [] _last_validation.success = False -> 1 )
    /\ DRIFT_FAILED_EXPECTATIONS = Len(_last_validation.failed)

\* A rule that cannot be applied to one-feature rows: no such expectation,
\* or a column the frame does not have.
BadRule(e) == e = UnknownRule \/ e = MissingColumnRule

\* The request just served ran a validation on a suite with a bad rule.
BadRuleRun ==
    /\ last_request.validated
    /\ expectations_file.state = "suite"
    /\ \E i \in 1..Len(expectations_file.expectations) :
          BadRule(expectations_file.expectations[i])

\* The failed-rule entry of a rule.
FailedEntry(e) == [type |-> e.expectation_type, kwargs |-> e.kwargs]

\* C12: a rule that cannot be applied fails alone: it is listed among the
\* failed rules with its type and kwargs, the other rules are still
\* evaluated (those that fail are listed too), and the run records no
\* error.
C12_BadRuleFailsAlone ==
    BadRuleRun =>
        /\ _last_validation.error = None
        /\ \A i \in 1..Len(expectations_file.expectations) :
              LET e == expectations_file.expectations[i]
              IN  (BadRule(e) \/ ~RuleSuccess(e, _request_buffer)) =>
                     \E j \in 1..Len(_last_validation.failed) :
                        _last_validation.failed[j] = FailedEntry(e)

\* What the service does instead: applying such a rule raises, which ends
\* the run: the record is an error record (success false, the exception
\* text, no failed rule listed) and the request is served.
BadRuleFailsWholeRun ==
    BadRuleRun =>
        /\ _last_validation.success = False
        /\ _last_validation.error # None
        /\ _last_validation.failed = <<>>
        /\ DRIFT_STATUS = 1
        /\ DRIFT_FAILED_EXPECTATIONS = 0
        /\ last_request.status = "ok"

\* C13: a served request for which the threshold test is false leaves the
\* recorded result and both gauges as they were.
C13_NoValidationKeepsResult ==
    [][ ( /\ last_request'.status = "ok"
          /\ ~( /\ Len(_request_buffer') >= Max(MIN_ROWS_TO_VALIDATE, 1)
                /\ _requests_since_validation + last_request'.rows
                      >= DRIFT_VALIDATE_EVERY ) )
        => /\ _last_validation' = _last_validation
           /\ DRIFT_STATUS' = DRIFT_STATUS
           /\ DRIFT_FAILED_EXPECTATIONS' = DRIFT_FAILED_EXPECTATIONS ]_vars

\* A request below the threshold was served after a validation run that
\* recorded a failure: the stale record and gauges are still in place.
C13_Witness ==
    /\ validation_runs >= 1
    /\ ~last_request.validated /\ last_request.status = "ok"
    /\ _requests_since_validation >= 1
    /\ _last_validation.success = False
    /\ DRIFT_STATUS = 1
    /\ DRIFT_FAILED_EXPECTATIONS = 1

\* C15: with drift enabled, DRIFT_WINDOW >= 1, DRIFT_MIN_ROWS >= 0 and
\* DRIFT_VALIDATE_EVERY >= 1, under requests that keep being served a
\* validation run happens again and again, returning the counter to 0.
C15_ValidationKeepsHappening ==
    []<>( (DriftOn /\ DRIFT_WINDOW >= 1 /\ DRIFT_VALIDATE_EVERY >= 1)
             => (last_request.validated /\ _requests_since_validation = 0) )

\* The window can hold the minimum number of rows a validation asks for.
WindowHoldsMinRows == DRIFT_WINDOW >= Max(MIN_ROWS_TO_VALIDATE, 1)

\* C15 for windows that can hold the minimum: with drift enabled,
\* DRIFT_WINDOW >= max(DRIFT_MIN_ROWS, 1) and DRIFT_VALIDATE_EVERY >= 1,
\* under requests that keep being served a validation run happens again
\* and again, returning the counter to 0, and the counter stays below
\* LiveCap.
C15_ValidationKeepsHappeningWhenWindowFits ==
    /\ []<>( (DriftOn /\ WindowHoldsMinRows /\ DRIFT_VALIDATE_EVERY >= 1)
                => (last_request.validated /\ _requests_since_validation = 0) )
    /\ []( (DriftOn /\ WindowHoldsMinRows /\ DRIFT_VALIDATE_EVERY >= 1)
                => _requests_since_validation < LiveCap )

\* A validation ran on a window just large enough for the minimum.
C15_Witness ==
    /\ DriftOn
    /\ DRIFT_WINDOW = MIN_ROWS_TO_VALIDATE /\ MIN_ROWS_TO_VALIDATE >= 2
    /\ DRIFT_VALIDATE_EVERY >= 1
    /\ last_request.validated
    /\ _requests_since_validation = 0
    /\ Len(_request_buffer) = DRIFT_WINDOW

(***************************************************************************)
(* The AIOps service: SimpleDriftDetector                                  *)
(***************************************************************************)
\* 1e-8 is one unit: standard deviations and z-score denominators are
\* counted in units of 1e-8, so that base_std = std + 1e-8 is exact.
E8 == 100000000

\* The default z_threshold of detect.
Z_THRESHOLD == 5

Abs(x) == IF x < 0 THEN -x ELSE x

\* Feature counts of batches and baselines.
FeatureCounts == {1, 2, 3}

\* Feature values of the rows sent to the AIOps service.
AppVals == {5, 11}

\* SimpleDriftDetector.__init__ on a baseline of d features whose columns
\* all have mean m and standard deviation sd: base_std is sd + 1e-8.
Detector(d, m, sd) ==
    [base_mean |-> [i \in 1..d |-> m], base_std |-> [i \in 1..d |-> sd * E8 + 1]]

\* The same on a baseline whose columns have standard deviation s - 1e-8:
\* base_std is exactly s.
FlooredDetector(d, m, s) ==
    [base_mean |-> [i \in 1..d |-> m], base_std |-> [i \in 1..d |-> s * E8]]

\* The detectors a baseline file can yield.
Baselines ==
    { Detector(d, 5, 1) : d \in FeatureCounts } \cup { Detector(1, 5, 0) }
        \cup { Detector(1, 6, 1), FlooredDetector(1, 5, 1), FlooredDetector(1, 6, 1) }

\* The 2-D batches of a request: 1..MaxAppBatch rows of one width.
AppRows(w) == [1..w -> AppVals]
AppBatches ==
    UNION { SeqsUpTo(AppRows(w), MaxAppBatch) \ { <<>> } : w \in FeatureCounts }

RECURSIVE ColumnSum(_, _)
ColumnSum(X, i) ==
    IF X = <<>> THEN 0 ELSE Head(X)[i] + ColumnSum(Tail(X), i)

\* A z-score is the fraction num / den with den > 0.  a <= b, by the
\* continued fractions of the two, which keeps every product in 32 bits.
RECURSIVE FracLeq(_, _)
FracLeq(a, b) ==
    LET qa == a.num \div a.den
        qb == b.num \div b.den
        ra == a.num % a.den
        rb == b.num % b.den
    IN  IF qa # qb THEN qa < qb
        ELSE IF ra = 0 THEN TRUE
        ELSE IF rb = 0 THEN FALSE
        ELSE FracLeq([num |-> b.den, den |-> rb], [num |-> a.den, den |-> ra])

\* numpy broadcasting of a length-n vector to length m: the index read.
Broadcast(i, n) == IF n = 1 THEN 1 ELSE i

\* Subtracting shapes (w,) and (d,) raises unless they are equal or one is 1.
ScoreRaises(X, det) ==
    LET w == Len(X[1])
        d == Len(det.base_mean)
    IN  w # d /\ w # 1 /\ d # 1

\* z[i] = | x_mean[i] - base_mean[i] | / base_std[i], x_mean = column sum / n.
ZScore(X, det, i) ==
    LET n == Len(X)
        xi == Broadcast(i, Len(X[1]))
        di == Broadcast(i, Len(det.base_mean))
    IN  [num |-> Abs(ColumnSum(X, xi) - n * det.base_mean[di]) * E8,
         den |-> n * det.base_std[di]]

\* SimpleDriftDetector.score: float(np.max(z)).
Score(X, det) ==
    LET len == Max(Len(X[1]), Len(det.base_mean))
        zs == { ZScore(X, det, i) : i \in 1..len }
    IN  CHOOSE z \in zs : \A y \in zs : FracLeq(y, z)

\* score > threshold: the bound left out.
AtLeastStrict(z, threshold) == z.num > threshold * z.den

\* score >= threshold, for a whole-number threshold.
AtLeast(z, threshold) == z.num >= threshold * z.den

\* SimpleDriftDetector.detect.
Detect(X, det) == AtLeast(Score(X, det), Z_THRESHOLD)

\* drift_score = 0.0
ZeroScore == [num |-> 0, den |-> 1]

(***************************************************************************)
(* The AIOps service: startup, _run_ge_validation, predict                 *)
(***************************************************************************)
AppInit ==
    /\ model_file \in {"present", "missing"}
    /\ baseline_file \in {Nothing} \cup { Some(b) : b \in Baselines }
    /\ app_expectations_file \in ExpectationFiles
    /\ app_GE_AVAILABLE \in BOOLEAN
    /\ DRIFT_WEBHOOK \in {"", "http://hook"}
    /\ app_state = "starting"
    /\ detector = Nothing
    /\ ge_suite = Nothing
    /\ req = [pc |-> "idle"]

\* _load_model raises FileNotFoundError.
LoadModelRaises == model_file = "missing"

\* _load_expectations: json.load raises on a file that is not JSON.
LoadExpectationsRaises ==
    app_GE_AVAILABLE /\ app_expectations_file.state = "unparsable"

\* ge_suite after _load_expectations: the parsed file, a document with an
\* "expectations" list (possibly empty).
LoadedSuite ==
    IF app_GE_AVAILABLE /\ app_expectations_file.state = "suite"
    THEN Some(app_expectations_file.expectations)
    ELSE Nothing

\* startup_event: the three loaders in order; an exception of one of them
\* ends the startup and the process.
StartupCrashes ==
    /\ app_state = "starting"
    /\ LoadModelRaises \/ LoadExpectationsRaises
    /\ app_state' = "crashed"
    /\ detector' = IF LoadModelRaises THEN Nothing ELSE baseline_file
    /\ UNCHANGED << appConfigVars, ge_suite, req, inferenceVars >>

StartupServes ==
    /\ app_state = "starting"
    /\ ~LoadModelRaises /\ ~LoadExpectationsRaises
    /\ app_state' = "serving"
    /\ detector' = baseline_file
    /\ ge_suite' = LoadedSuite
    /\ UNCHANGED << appConfigVars, req, inferenceVars >>

\* A validator that reports drift when the suite cannot be evaluated.
AppRunGeValidationFailClosed(X) ==
    /\ app_GE_AVAILABLE /\ ge_suite # Nothing
    /\ \/ SuiteRaises(Get(ge_suite), X)
       \/ ~SuiteSuccess(Get(ge_suite), X)

\* _run_ge_validation(X) of the AIOps service: TRUE when the suite ran and
\* did not succeed; FALSE when it is switched off or raised.
AppRunGeValidation(X) ==
    /\ app_GE_AVAILABLE /\ ge_suite # Nothing
    /\ ~SuiteRaises(Get(ge_suite), X)
    /\ ~SuiteSuccess(Get(ge_suite), X)

\* A merge that needs both signals.
MergeVerdictBoth(ge_drift, stat_drift) == ge_drift /\ stat_drift

\* drift_detected after the two checks of predict.
MergeVerdict(ge_drift, stat_drift) == ge_drift \/ stat_drift

\* A notifier called on every request.
ShouldNotifyAlways(drift_detected) == DRIFT_WEBHOOK # ""

\* if drift_detected: ... if DRIFT_WEBHOOK: requests.post(...)
ShouldNotify(drift_detected) == drift_detected /\ DRIFT_WEBHOOK # ""

\* The PredictResponse of a handled request.
PredictResponse(detected, score) ==
    [status |-> 200, drift_detected |-> detected, drift_score |-> score]

\* An HTTP error answer.
ErrorResponse(code) == [status |-> code]

\* A finished request.
Done(X, predicted, detected, score, posts, webhook, response) ==
    [pc |-> "done", X |-> X, predicted |-> predicted, drift_detected |-> detected,
     drift_score |-> score, posts |-> posts, webhook |-> webhook,
     response |-> Some(response)]

\* POST /predict with inputs that are not a 2-D list: answer 400.
AppPredictBadInput ==
    /\ app_state = "serving" /\ req.pc = "idle"
    /\ req' = Done(<<>>, FALSE, FALSE, ZeroScore, 0, "none", ErrorResponse(400))
    /\ UNCHANGED << appConfigVars, app_state, detector, ge_suite, inferenceVars >>

\* POST /predict, model.predict raises: answer 500.
AppPredictModelError(X) ==
    /\ app_state = "serving" /\ req.pc = "idle"
    /\ req' = Done(X, FALSE, FALSE, ZeroScore, 0, "none", ErrorResponse(500))
    /\ UNCHANGED << appConfigVars, app_state, detector, ge_suite, inferenceVars >>

\* POST /predict, predictions computed, detector.score raises on the shapes:
\* nothing catches it, the request ends with 500.
AppPredictScoreError(X) ==
    /\ app_state = "serving" /\ req.pc = "idle"
    /\ detector # Nothing /\ ScoreRaises(X, Get(detector))
    /\ req' = Done(X, TRUE, AppRunGeValidation(X), ZeroScore, 0, "none",
                   ErrorResponse(500))
    /\ UNCHANGED << appConfigVars, app_state, detector, ge_suite, inferenceVars >>

\* POST /predict, predictions computed, both checks done: either answer,
\* or send the webhook POST and wait for its outcome.
AppPredictChecks(X) ==
    /\ app_state = "serving" /\ req.pc = "idle"
    /\ detector # Nothing => ~ScoreRaises(X, Get(detector))
    /\ LET ge_drift == AppRunGeValidation(X)
           drift_score == IF detector # Nothing THEN Score(X, Get(detector)) ELSE ZeroScore
           stat_drift == detector # Nothing /\ Detect(X, Get(detector))
           drift_detected == MergeVerdict(ge_drift, stat_drift)
       IN  req' = IF ShouldNotify(drift_detected)
                  THEN [pc |-> "posting", X |-> X, predicted |-> TRUE,
                        drift_detected |-> drift_detected,
                        drift_score |-> drift_score, posts |-> 1,
                        webhook |-> "pending", response |-> Nothing]
                  ELSE Done(X, TRUE, drift_detected, drift_score, 0, "none",
                            PredictResponse(drift_detected, drift_score))
    /\ UNCHANGED << appConfigVars, app_state, detector, ge_suite, inferenceVars >>

\* requests.post returns a response (its status is logged) or raises (the
\* exception is logged); the handler then answers.
WebhookOutcomes == {"status 200", "status 500", "raised"}

WebhookReturns(outcome) ==
    /\ req.pc = "posting"
    /\ req' = [req EXCEPT !.pc = "done", !.webhook = outcome,
                          !.response = Some(PredictResponse(req.drift_detected,
                                                            req.drift_score))]
    /\ UNCHANGED << appConfigVars, app_state, detector, ge_suite, inferenceVars >>

\* The answer is sent; the worker takes the next request.
AppRespond ==
    /\ req.pc = "done"
    /\ req' = [pc |-> "idle"]
    /\ UNCHANGED << appConfigVars, app_state, detector, ge_suite, inferenceVars >>

AppPredict ==
    \/ AppPredictBadInput
    \/ \E X \in AppBatches :
          \/ AppPredictModelError(X)
          \/ AppPredictScoreError(X)
          \/ AppPredictChecks(X)

Webhook == \E outcome \in WebhookOutcomes : WebhookReturns(outcome)

AppNext == StartupCrashes \/ StartupServes \/ AppPredict \/ Webhook \/ AppRespond

(***************************************************************************)
(* Properties of the AIOps service                                         *)
(***************************************************************************)
\* The request has an answer carrying a verdict.
Answered == req.pc = "done" /\ Get(req.response).status = 200

\* The expectation suite was evaluated on the batch and did not succeed.
ExpectationsFailed(X) ==
    /\ app_GE_AVAILABLE
    /\ app_expectations_file.state = "suite"
    /\ \A i \in 1..Len(app_expectations_file.expectations) :
          ~RuleRaises(app_expectations_file.expectations[i], X)
    /\ \E i \in 1..Len(app_expectations_file.expectations) :
          ~RuleSuccess(app_expectations_file.expectations[i], X)

\* A baseline is loaded and some feature of the batch mean lies at least
\* Z_THRESHOLD (floored) standard deviations from the baseline mean.
StatisticalDrift(X) ==
    /\ baseline_file # Nothing
    /\ \E i \in 1..Max(Len(X[1]), Len(Get(baseline_file).base_mean)) :
          AtLeast(ZScore(X, Get(baseline_file), i), Z_THRESHOLD)

\* C5: the verdict of every answered request is the OR of the two signals,
\* each taken on its own: a validator or detector that is switched off
\* contributes false and leaves the other signal as the verdict.
C5_VerdictIsOrOfSignals ==
    Answered =>
        /\ Get(req.response).drift_detected
              = (ExpectationsFailed(req.X) \/ StatisticalDrift(req.X))
        /\ detector = Nothing =>
              Get(req.response).drift_detected = ExpectationsFailed(req.X)
        /\ ge_suite = Nothing =>
              Get(req.response).drift_detected = StatisticalDrift(req.X)

\* Drift reported on the z-score alone, the suite having succeeded.
C5_Witness ==
    /\ Answered
    /\ Get(req.response).drift_detected
    /\ ge_suite # Nothing /\ Get(ge_suite) # <<>>
    /\ ~ExpectationsFailed(req.X)
    /\ StatisticalDrift(req.X)

\* C6: a malformed rule file, a rule that cannot be evaluated or a batch
\* whose feature count differs from the baseline's never aborts a request:
\* once the predictions are computed the request is answered with them.
C6_ChecksNeverAbortRequest ==
    req.pc = "done" /\ req.predicted => Get(req.response).status = 200

\* The other half of the same design rule: the service stops at startup
\* only for want of a model, never because of the rule file.
RuleFileNeverStopsStartup ==
    app_state = "crashed" => model_file = "missing"

\* C9: the webhook is posted to at most once per request and only for a
\* request whose verdict is drift; with a webhook configured every drift
\* verdict is posted; whatever the POST yields (a status, an exception),
\* the request is answered 200 with the verdict reached before the POST.
C9_NotifierOnlyOnDrift ==
    req.pc # "idle" =>
        /\ req.posts <= 1
        /\ req.posts = 1 => req.drift_detected /\ DRIFT_WEBHOOK # ""
        /\ req.webhook # "none" => req.posts = 1
        /\ ( /\ req.pc = "done" /\ req.predicted /\ req.posts = 0
             /\ Get(req.response).status = 200 /\ DRIFT_WEBHOOK # "" )
              => ~Get(req.response).drift_detected
        /\ req.pc = "done" /\ req.webhook \in {"status 500", "raised"} =>
              /\ Get(req.response).status = 200
              /\ Get(req.response).drift_detected
              /\ Get(req.response).drift_detected
                    = (ExpectationsFailed(req.X) \/ StatisticalDrift(req.X))

\* The POST raised and the request was answered with its drift verdict.
C9_Witness ==
    /\ req.pc = "done"
    /\ req.webhook = "raised"
    /\ req.posts = 1
    /\ Get(req.response).status = 200
    /\ Get(req.response).drift_detected

\* C10: a request that has sent the webhook POST is eventually answered,
\* even if the endpoint never responds.
C10_PostingRequestCompletes ==
    (req.pc = "posting") ~> (req.pc = "done")

\* The request in hand was scored against a baseline of its feature count.
Scored ==
    /\ req.pc \in {"posting", "done"}
    /\ req.predicted
    /\ detector # Nothing
    /\ Len(req.X[1]) = Len(Get(detector).base_mean)

\* | batchMean[i] - baseline.mean[i] | / baseline.stddev[i] of that request,
\* the batch mean being the column sum over the number of rows.
FeatureZ(i) ==
    [num |-> Abs(ColumnSum(req.X, i) - Len(req.X) * Get(detector).base_mean[i]) * E8,
     den |-> Len(req.X) * Get(detector).base_std[i]]

\* C14: the score of a batch of the baseline's feature count is the largest
\* per-feature |batch mean - baseline mean| / stddev: never negative, 0 when
\* every batch mean is the baseline mean.  Detect is score >= threshold,
\* bound included, so one feature at or beyond the threshold is enough.
C14_ScoreIsMaxZAndDetectIsAtLeast ==
    Scored =>
        LET d == Len(Get(detector).base_mean)
        IN  /\ \A i \in 1..d : FracLeq(FeatureZ(i), req.drift_score)
            /\ \E i \in 1..d : FeatureZ(i) = req.drift_score
            /\ req.drift_score.num >= 0 /\ req.drift_score.den > 0
            /\ (\A i \in 1..d :
                   ColumnSum(req.X, i) = Len(req.X) * Get(detector).base_mean[i])
                  => req.drift_score.num = 0
            /\ ~ExpectationsFailed(req.X) =>
                  ( req.drift_detected
                       <=> req.drift_score.num >= Z_THRESHOLD * req.drift_score.den )
            /\ (\E i \in 1..d : FeatureZ(i).num >= Z_THRESHOLD * FeatureZ(i).den)
                  => req.drift_detected

\* A batch whose mean lies exactly Z_THRESHOLD standard deviations from the
\* baseline mean was scored and reported as drift on the z-score alone.
C14_Witness ==
    /\ Scored
    /\ ~ExpectationsFailed(req.X)
    /\ req.drift_score.num = Z_THRESHOLD * req.drift_score.den
    /\ req.drift_detected

(***************************************************************************)
(* Specifications                                                          *)
(***************************************************************************)
\* The service that is not running.
AppOff ==
    /\ model_file = "missing"
    /\ baseline_file = Nothing
    /\ app_expectations_file = [state |-> "missing"]
    /\ app_GE_AVAILABLE = FALSE
    /\ DRIFT_WEBHOOK = ""
    /\ app_state = "off"
    /\ detector = Nothing
    /\ ge_suite = Nothing
    /\ req = [pc |-> "idle"]

InferenceOff ==
    /\ DRIFT_ENABLED = FALSE
    /\ GE_AVAILABLE = FALSE
    /\ DRIFT_WINDOW = 0
    /\ DRIFT_VALIDATE_EVERY = 0
    /\ MIN_ROWS_TO_VALIDATE = 0
    /\ expectations_file = [state |-> "missing"]
    /\ _request_buffer = <<>>
    /\ _requests_since_validation = 0
    /\ _last_validation =
          [enabled |-> FALSE, success |-> None, failed |-> <<>>,
           checked_at |-> NotChecked, error |-> None]
    /\ DRIFT_STATUS = 0
    /\ DRIFT_FAILED_EXPECTATIONS = 0
    /\ now = 0
    /\ appended = <<>>
    /\ snapshot_at = 0
    /\ validation_runs = 0
    /\ last_request = [status |-> "none", rows |-> 0, validated |-> FALSE]

\* The inference service.
Init == InferenceInit /\ AppOff

Next == Predict

Spec == Init /\ [][Next]_vars

\* The AIOps service.
AppSpecInit == AppInit /\ InferenceOff

AppSpec == AppSpecInit /\ [][AppNext]_vars

\* The AIOps service with its own steps taken whenever they can be; the
\* webhook endpoint is another party and owes no answer.
AppFairSpec ==
    /\ AppSpecInit
    /\ [][AppNext]_vars
    /\ WF_vars(StartupCrashes)
    /\ WF_vars(StartupServes)
    /\ WF_vars(AppRespond)

\* The inference service under traffic that does not stop: requests with
\* at least one row keep being served.
LiveSpec ==
    /\ Init
    /\ [][LivePredict]_vars
    /\ WF_vars(LiveServed)

====
